---- MODULE Spec2Model ----
(***************************************************************************)
(* webextract: an HTTP scraping service in front of one persistent        *)
(* browser.  Each request is served by scrapeHandler on its own goroutine; *)
(* the goroutines share the flag isCaptchaPending under captchaMutex, and  *)
(* the console goroutine manageConsoleInput clears the flag on Enter.      *)
(*                                                                         *)
(* Text is a sequence of one-character strings.  A Cyrillic letter is      *)
(* written as its Latin transliteration with a leading underscore ("_k"),  *)
(* one token per letter.                                                   *)
(***************************************************************************)
EXTENDS Integers, Sequences, FiniteSets, TLC

\* Number of requests served concurrently in the model.
NumReq == 2

Reqs == 1..NumReq

(***************************************************************************)
(* Text helpers: strings.ToLower, strings.Contains, the keyword list.      *)
(***************************************************************************)

captchaKeywords ==
    << <<"_k","_a","_p","_ch","_a">>,
       <<"_n","_e"," ","_r","_o","_b","_o","_t">>,
       <<"_p","_o","_d","_o","_z","_r","_i","_t","_e","_l","_soft","_n","_a","_ya"," ",
         "_a","_k","_t","_i","_v","_n","_o","_s","_t","_soft">>,
       <<"_p","_o","_d","_t","_v","_e","_r","_d","_i","_t","_e",","," ","_ch","_t","_o">>,
       <<"u","n","u","s","u","a","l"," ","t","r","a","f","f","i","c">>,
       <<"a","r","e"," ","y","o","u"," ","a"," ","r","o","b","o","t">>,
       <<"p","r","o","v","e"," ","y","o","u"," ","a","r","e"," ","h","u","m","a","n">>,
       <<"c","a","p","t","c","h","a">> >>

UpperLetters ==
    <<"A","B","C","D","E","F","G","H","I","J","K","L","M","N","O","P","Q","R","S","T",
      "U","V","W","X","Y","Z","_K","_A","_P","_CH","_N","_E","_R","_O","_B","_T">>

LowerLetters ==
    <<"a","b","c","d","e","f","g","h","i","j","k","l","m","n","o","p","q","r","s","t",
      "u","v","w","x","y","z","_k","_a","_p","_ch","_n","_e","_r","_o","_b","_t">>

ToLowerChar(c) ==
    IF \E i \in 1..Len(UpperLetters) : UpperLetters[i] = c
    THEN LowerLetters[CHOOSE i \in 1..Len(UpperLetters) : UpperLetters[i] = c]
    ELSE c

ToLower(s) == [i \in 1..Len(s) |-> ToLowerChar(s[i])]

Contains(s, substr) ==
    \E i \in 0..(Len(s) - Len(substr)) : SubSeq(s, i + 1, i + Len(substr)) = substr

\* Variant: the loop does not stop at the first match and keeps the last one.
ScanFromLast(lowerBodyText, keywords, k) ==
    LET hits == {j \in k..Len(keywords) : Contains(lowerBodyText, keywords[j])}
    IN  IF hits = {} THEN 0 ELSE CHOOSE j \in hits : \A i \in hits : i <= j

\* The loop over captchaKeywords: the index of the first keyword contained in
\* the lowercased body text, 0 when the loop ends without a match.
RECURSIVE ScanFrom(_, _, _)
ScanFrom(lowerBodyText, keywords, k) ==
    IF k > Len(keywords) THEN 0
    ELSE IF Contains(lowerBodyText, keywords[k]) THEN k
    ELSE ScanFrom(lowerBodyText, keywords, k + 1)

Scan(bodyText) == ScanFrom(ToLower(bodyText), captchaKeywords, 1)

\* The same scan against a given keyword list.
ScanWith(bodyText, keywords) == ScanFrom(ToLower(bodyText), keywords, 1)

\* Body texts the browser may return for a page.
Bodies ==
    { <<"H","e","l","l","o">>,
      <<"E","n","t","e","r"," ","C","A","P","T","C","H","A">> }

(***************************************************************************)
(* Requests.                                                               *)
(***************************************************************************)

Urls == {"", "https://example.com"}

\* The directive flags a query of the model may carry.
FlagSets == {{}, {"content"}, {"links", "meta"}}

Queries ==
    { [url |-> u, content |-> "content" \in f, links |-> "links" \in f,
       meta |-> "meta" \in f] : u \in Urls, f \in FlagSets }

NoQuery == [url |-> "", content |-> FALSE, links |-> FALSE, meta |-> FALSE]


\* Variant: the content read is queued ahead of the CAPTCHA check.
TasksContentFirst(q) ==
    <<"Navigate", "WaitVisible">>
    \o (IF q.content THEN <<"Text">> ELSE <<>>)
    \o <<"detectAndPauseOnCaptcha">>
    \o (IF q.meta THEN <<"Title", "AttrDescription", "AttrKeywords">> ELSE <<>>)
    \o (IF q.links THEN <<"Nodes">> ELSE <<>>)
    \o <<"final">>

\* The flat task list scrapeHandler builds for chromedp.Run.
Tasks(q) ==
    <<"Navigate", "WaitVisible", "detectAndPauseOnCaptcha">>
    \o (IF q.content THEN <<"Text">> ELSE <<>>)
    \o (IF q.meta THEN <<"Title", "AttrDescription", "AttrKeywords">> ELSE <<>>)
    \o (IF q.links THEN <<"Nodes">> ELSE <<>>)
    \o <<"final">>

ExtractionTasks == {"Text", "Title", "AttrDescription", "AttrKeywords", "Nodes", "final"}

VARIABLES
    isCaptchaPending,   \* the shared flag
    captchaMutex,       \* TRUE while the mutex is locked
    consolePc,          \* manageConsoleInput: "read", "lock" or "locked"
    pc,                 \* pc[r]: position of request r's handler
    query,              \* query[r]: r's query parameters
    ti,                 \* ti[r]: index of the task chromedp.Run executes next
    kw,                 \* kw[r]: index of the keyword r's scan matched, 0 if none
    err,                \* err[r]: chromedp.Run returned an error
    status,             \* status[r]: HTTP status written, 0 if none yet
    response,           \* response[r]: non-zero fields of the Response
    tab,                \* tab[r]: the tab r created, 0 if none
    openTabs,           \* tabs open in the browser
    nextTab,            \* the next fresh tab
    closes,             \* closes[r]: times r's cancelTab ran
    notifier,           \* notifier[r]: the goroutine r started for sendTelegramNotification
    observed,           \* observed[r]: what r's admission check read
    ran,                \* ran[r]: tasks r completed, in order
    opens,              \* opens[r]: tabs r created
    trigBegun,          \* history: a keyword match has occurred since the last Resolve
    episodeOpen,        \* history: a task wrote the flag since the last Resolve
    released,           \* history: Resolve has run while r was parked, r still parked
    calc                \* a call of a pure function under check: input and result

vars == <<isCaptchaPending, captchaMutex, consolePc, pc, query, ti, kw, err, status,
          response, tab, openTabs, nextTab, closes, notifier, observed, ran,
          opens, trigBegun, episodeOpen, released, calc>>

reqVars == <<pc, query, ti, kw, err, status, response, observed, ran>>
tabVars == <<tab, openTabs, nextTab, closes, opens>>
gateVars == <<isCaptchaPending, captchaMutex>>
histVars == <<trigBegun, episodeOpen, released>>

\* Positions inside the Trigger block of detectAndPauseOnCaptcha.
TriggerStates == {"trigLock", "trigSet", "notify", "pollLock", "pollCheck", "sleep"}

\* Positions after the flag was written and before the polling loop is left.
ParkedStates == {"notify", "pollLock", "pollCheck", "sleep"}

CurTask(r) == Tasks(query[r])[ti[r]]

\* No pure-function call is under check.
NoCalc ==
    [op |-> "none", keywords |-> <<>>, text |-> <<>>, nodes |-> <<>>, done |-> FALSE,
     out |-> <<>>]

Init ==
    /\ calc = NoCalc
    /\ isCaptchaPending = FALSE
    /\ captchaMutex = FALSE
    /\ consolePc = "read"
    /\ pc = [r \in Reqs |-> "idle"]
    /\ query = [r \in Reqs |-> NoQuery]
    /\ ti = [r \in Reqs |-> 0]
    /\ kw = [r \in Reqs |-> 0]
    /\ err = [r \in Reqs |-> FALSE]
    /\ status = [r \in Reqs |-> 0]
    /\ response = [r \in Reqs |-> {}]
    /\ tab = [r \in Reqs |-> 0]
    /\ openTabs = {}
    /\ nextTab = 1
    /\ closes = [r \in Reqs |-> 0]
    /\ opens = [r \in Reqs |-> 0]
    /\ notifier = [r \in Reqs |-> "none"]
    /\ observed = [r \in Reqs |-> "none"]
    /\ ran = [r \in Reqs |-> <<>>]
    /\ trigBegun = FALSE
    /\ episodeOpen = FALSE
    /\ released = [r \in Reqs |-> FALSE]

(***************************************************************************)
(* scrapeHandler: admission.                                               *)
(***************************************************************************)

\* The HTTP server starts scrapeHandler for a new request.
Arrive(r) ==
    /\ pc[r] = "idle"
    /\ \E q \in Queries : query' = [query EXCEPT ![r] = q]
    /\ pc' = [pc EXCEPT ![r] = "admitLock"]
    /\ UNCHANGED <<ti, kw, err, status, response, observed, ran>>
    /\ UNCHANGED <<gateVars, consolePc, tabVars, notifier,  histVars>>
    /\ UNCHANGED calc

\* captchaMutex.Lock() of the admission check.
AdmitLock(r) ==
    /\ pc[r] = "admitLock"
    /\ ~captchaMutex
    /\ captchaMutex' = TRUE
    /\ pc' = [pc EXCEPT ![r] = "admitCheck"]
    /\ UNCHANGED <<query, ti, kw, err, status, response, observed, ran>>
    /\ UNCHANGED <<isCaptchaPending, consolePc, tabVars, notifier,  histVars>>
    /\ UNCHANGED calc


\* Variant: the busy branch lacks its return and falls through to validation.
AdmitCheckFallsThrough(r) ==
    /\ pc[r] = "admitCheck"
    /\ captchaMutex' = FALSE
    /\ observed' = [observed EXCEPT ![r] = IF isCaptchaPending THEN "busy" ELSE "free"]
    /\ pc' = [pc EXCEPT ![r] = "validate"]
    /\ UNCHANGED <<query, ti, kw, err, status, response, ran>>
    /\ UNCHANGED <<isCaptchaPending, consolePc, tabVars, notifier, histVars>>
    /\ UNCHANGED calc

\* if isCaptchaPending { Unlock; ... return } Unlock
AdmitCheck(r) ==
    /\ pc[r] = "admitCheck"
    /\ captchaMutex' = FALSE
    /\ observed' = [observed EXCEPT ![r] = IF isCaptchaPending THEN "busy" ELSE "free"]
    /\ pc' = [pc EXCEPT ![r] = IF isCaptchaPending THEN "reject" ELSE "validate"]
    /\ UNCHANGED <<query, ti, kw, err, status, response, ran>>
    /\ UNCHANGED <<isCaptchaPending, consolePc, tabVars, notifier,  histVars>>
    /\ UNCHANGED calc


\* Variant: the 503 is written but the handler goes on instead of returning.
RejectContinues(r) ==
    /\ pc[r] = "reject"
    /\ status' = [status EXCEPT ![r] = 503]
    /\ pc' = [pc EXCEPT ![r] = "validate"]
    /\ UNCHANGED <<query, ti, kw, err, response, observed, ran>>
    /\ UNCHANGED <<gateVars, consolePc, tabVars, notifier, histVars>>
    /\ UNCHANGED calc

\* writeJsonError(w, ..., http.StatusServiceUnavailable); return
Reject(r) ==
    /\ pc[r] = "reject"
    /\ status' = [status EXCEPT ![r] = 503]
    /\ pc' = [pc EXCEPT ![r] = "done"]
    /\ UNCHANGED <<query, ti, kw, err, response, observed, ran>>
    /\ UNCHANGED <<gateVars, consolePc, tabVars, notifier,  histVars>>
    /\ UNCHANGED calc

\* url := r.URL.Query().Get("url"); if url == "" { 400; return }
Validate(r) ==
    /\ pc[r] = "validate"
    /\ IF query[r].url = ""
       THEN /\ status' = [status EXCEPT ![r] = 400]
            /\ pc' = [pc EXCEPT ![r] = "done"]
       ELSE /\ pc' = [pc EXCEPT ![r] = "newTab"]
            /\ UNCHANGED status
    /\ UNCHANGED <<query, ti, kw, err, response, observed, ran>>
    /\ UNCHANGED <<gateVars, consolePc, tabVars, notifier,  histVars>>
    /\ UNCHANGED calc

\* tabCtx, cancelTab := chromedp.NewContext(persistentBrowserCtx); defer
\* cancelTab(); the task list is built and chromedp.Run starts.
NewTab(r) ==
    /\ pc[r] = "newTab"
    /\ tab' = [tab EXCEPT ![r] = nextTab]
    /\ openTabs' = openTabs \cup {nextTab}
    /\ nextTab' = nextTab + 1
    /\ opens' = [opens EXCEPT ![r] = @ + 1]
    /\ ti' = [ti EXCEPT ![r] = 1]
    /\ pc' = [pc EXCEPT ![r] = "run"]
    /\ UNCHANGED <<query, kw, err, status, response, observed, ran, closes>>
    /\ UNCHANGED <<gateVars, consolePc, notifier,  histVars>>
    /\ UNCHANGED calc

(***************************************************************************)
(* chromedp.Run(tabCtx, tasks): the tasks run in list order and the first  *)
(* error ends the run.                                                     *)
(***************************************************************************)

\* The current task returned nil.
TaskOk(r) ==
    /\ ti' = [ti EXCEPT ![r] = @ + 1]
    /\ ran' = [ran EXCEPT ![r] = Append(@, CurTask(r))]
    /\ pc' = [pc EXCEPT ![r] = "run"]
    /\ UNCHANGED err

\* Variant: the error of a task is recorded but the run goes on to the next task.
TaskFailContinues(r) ==
    /\ err' = [err EXCEPT ![r] = TRUE]
    /\ ti' = [ti EXCEPT ![r] = @ + 1]
    /\ pc' = [pc EXCEPT ![r] = "run"]
    /\ UNCHANGED ran

\* The current task returned an error: Run returns it.
TaskFail(r) ==
    /\ err' = [err EXCEPT ![r] = TRUE]
    /\ pc' = [pc EXCEPT ![r] = "respond"]
    /\ UNCHANGED <<ti, ran>>

\* chromedp.Navigate(url)
Navigate(r) ==
    /\ pc[r] = "run"
    /\ CurTask(r) = "Navigate"
    /\ \/ TaskOk(r)
       \/ TaskFail(r)
    /\ UNCHANGED <<query, kw, status, response, observed>>
    /\ UNCHANGED <<gateVars, consolePc, tabVars, notifier,  histVars>>
    /\ UNCHANGED calc

\* chromedp.WaitVisible(`body`)
WaitVisible(r) ==
    /\ pc[r] = "run"
    /\ CurTask(r) = "WaitVisible"
    /\ \/ TaskOk(r)
       \/ TaskFail(r)
    /\ UNCHANGED <<query, kw, status, response, observed>>
    /\ UNCHANGED <<gateVars, consolePc, tabVars, notifier,  histVars>>
    /\ UNCHANGED calc

(***************************************************************************)
(* detectAndPauseOnCaptcha.                                                *)
(***************************************************************************)

\* Variant: a page without a keyword also waits while the flag is pending.
DetectScanWaitsIfPending(r) ==
    /\ pc[r] = "run"
    /\ CurTask(r) = "detectAndPauseOnCaptcha"
    /\ \/ /\ TaskFail(r)
          /\ UNCHANGED <<kw, trigBegun>>
       \/ \E bodyText \in Bodies :
             /\ kw' = [kw EXCEPT ![r] = Scan(bodyText)]
             /\ IF Scan(bodyText) # 0
                THEN /\ pc' = [pc EXCEPT ![r] = "trigLock"]
                     /\ trigBegun' = TRUE
                     /\ UNCHANGED <<ti, ran, err>>
                ELSE IF isCaptchaPending
                     THEN /\ pc' = [pc EXCEPT ![r] = "pollLock"]
                          /\ UNCHANGED <<ti, ran, err, trigBegun>>
                     ELSE /\ TaskOk(r)
                          /\ UNCHANGED trigBegun
    /\ UNCHANGED <<query, status, response, observed>>
    /\ UNCHANGED <<gateVars, consolePc, tabVars, notifier, episodeOpen, released>>
    /\ UNCHANGED calc

\* chromedp.Text(`body`, &bodyText) and the loop over captchaKeywords: an
\* error of Text is returned; a match enters the pause block; no match
\* returns nil.
DetectScan(r) ==
    /\ pc[r] = "run"
    /\ CurTask(r) = "detectAndPauseOnCaptcha"
    /\ \/ /\ TaskFail(r)
          /\ UNCHANGED <<kw, trigBegun>>
       \/ \E bodyText \in Bodies :
             /\ kw' = [kw EXCEPT ![r] = Scan(bodyText)]
             /\ IF Scan(bodyText) # 0
                THEN /\ pc' = [pc EXCEPT ![r] = "trigLock"]
                     /\ trigBegun' = TRUE
                     /\ UNCHANGED <<ti, ran, err>>
                ELSE /\ TaskOk(r)
                     /\ UNCHANGED trigBegun
    /\ UNCHANGED <<query, status, response, observed>>
    /\ UNCHANGED <<gateVars, consolePc, tabVars, notifier,  episodeOpen, released>>
    /\ UNCHANGED calc

\* captchaMutex.Lock() before the flag is set.
TrigLock(r) ==
    /\ pc[r] = "trigLock"
    /\ ~captchaMutex
    /\ captchaMutex' = TRUE
    /\ pc' = [pc EXCEPT ![r] = "trigSet"]
    /\ UNCHANGED <<query, ti, kw, err, status, response, observed, ran>>
    /\ UNCHANGED <<isCaptchaPending, consolePc, tabVars, notifier,  histVars>>
    /\ UNCHANGED calc

\* isCaptchaPending = true; captchaMutex.Unlock()
TrigSet(r) ==
    /\ pc[r] = "trigSet"
    /\ isCaptchaPending' = TRUE
    /\ captchaMutex' = FALSE
    /\ episodeOpen' = TRUE
    /\ pc' = [pc EXCEPT ![r] = "notify"]
    /\ UNCHANGED <<query, ti, kw, err, status, response, observed, ran>>
    /\ UNCHANGED <<consolePc, tabVars, notifier,  trigBegun, released>>
    /\ UNCHANGED calc

\* go sendTelegramNotification(message); the message is logged.
Notify(r) ==
    /\ pc[r] = "notify"
    /\ notifier' = [notifier EXCEPT ![r] = "running"]
    /\ pc' = [pc EXCEPT ![r] = "pollLock"]
    /\ UNCHANGED <<query, ti, kw, err, status, response, observed, ran>>
    /\ UNCHANGED <<gateVars, consolePc, tabVars,  histVars>>
    /\ UNCHANGED calc

\* captchaMutex.Lock() at the head of the polling loop.
PollLock(r) ==
    /\ pc[r] = "pollLock"
    /\ ~captchaMutex
    /\ captchaMutex' = TRUE
    /\ pc' = [pc EXCEPT ![r] = "pollCheck"]
    /\ UNCHANGED <<query, ti, kw, err, status, response, observed, ran>>
    /\ UNCHANGED <<isCaptchaPending, consolePc, tabVars, notifier,  histVars>>
    /\ UNCHANGED calc


\* Variant: the loop unlocks only on its way out and sleeps holding the lock.
PollCheckKeepsLock(r) ==
    /\ pc[r] = "pollCheck"
    /\ IF ~isCaptchaPending
       THEN /\ pc' = [pc EXCEPT ![r] = "settle"]
            /\ captchaMutex' = FALSE
            /\ released' = [released EXCEPT ![r] = FALSE]
       ELSE /\ pc' = [pc EXCEPT ![r] = "sleep"]
            /\ UNCHANGED <<captchaMutex, released>>
    /\ UNCHANGED <<query, ti, kw, err, status, response, observed, ran>>
    /\ UNCHANGED <<isCaptchaPending, consolePc, tabVars, notifier>>
    /\ UNCHANGED <<trigBegun, episodeOpen>>
    /\ UNCHANGED calc

\* Variant: the polling loop also gives up while the flag is still set.
PollCheckGivesUp(r) ==
    /\ pc[r] = "pollCheck"
    /\ captchaMutex' = FALSE
    /\ \/ /\ pc' = [pc EXCEPT ![r] = "settle"]
          /\ released' = [released EXCEPT ![r] = FALSE]
       \/ /\ isCaptchaPending
          /\ pc' = [pc EXCEPT ![r] = "sleep"]
          /\ UNCHANGED released
    /\ UNCHANGED <<query, ti, kw, err, status, response, observed, ran>>
    /\ UNCHANGED <<isCaptchaPending, consolePc, tabVars, notifier>>
    /\ UNCHANGED <<trigBegun, episodeOpen>>
    /\ UNCHANGED calc

\* if !isCaptchaPending { Unlock; break } Unlock
PollCheck(r) ==
    /\ pc[r] = "pollCheck"
    /\ captchaMutex' = FALSE
    /\ IF ~isCaptchaPending
       THEN /\ pc' = [pc EXCEPT ![r] = "settle"]
            /\ released' = [released EXCEPT ![r] = FALSE]
       ELSE /\ pc' = [pc EXCEPT ![r] = "sleep"]
            /\ UNCHANGED released
    /\ UNCHANGED <<query, ti, kw, err, status, response, observed, ran>>
    /\ UNCHANGED <<isCaptchaPending, consolePc, tabVars, notifier>>
    /\ UNCHANGED <<trigBegun, episodeOpen>>
    /\ UNCHANGED calc

\* Variant: the wait gives up after one sleep and goes on to the settle sleep.
PollSleepTimesOut(r) ==
    /\ pc[r] = "sleep"
    /\ pc' = [pc EXCEPT ![r] = "settle"]
    /\ UNCHANGED <<query, ti, kw, err, status, response, observed, ran>>
    /\ UNCHANGED <<gateVars, consolePc, tabVars, notifier, histVars>>
    /\ UNCHANGED calc

\* time.Sleep(1 * time.Second)
PollSleep(r) ==
    /\ pc[r] = "sleep"
    /\ pc' = [pc EXCEPT ![r] = "pollLock"]
    /\ UNCHANGED <<query, ti, kw, err, status, response, observed, ran>>
    /\ UNCHANGED <<gateVars, consolePc, tabVars, notifier,  histVars>>
    /\ UNCHANGED calc

\* return chromedp.Sleep(2 * time.Second).Do(ctx)
Settle(r) ==
    /\ pc[r] = "settle"
    /\ \/ TaskOk(r)
       \/ TaskFail(r)
    /\ UNCHANGED <<query, kw, status, response, observed>>
    /\ UNCHANGED <<gateVars, consolePc, tabVars, notifier,  histVars>>
    /\ UNCHANGED calc

(***************************************************************************)
(* sendTelegramNotification, on its own goroutine.                         *)
(***************************************************************************)

NotifierOutcomes == {"failed", "ok"}

\* Variant: a failed notification is reported to the request as an error.
NotifierFinishPropagates(r) ==
    /\ notifier[r] = "running"
    /\ \E o \in NotifierOutcomes :
          /\ notifier' = [notifier EXCEPT ![r] = o]
          /\ err' = [err EXCEPT ![r] = @ \/ o = "failed"]
    /\ UNCHANGED <<pc, query, ti, kw, status, response, observed, ran>>
    /\ UNCHANGED <<gateVars, consolePc, tabVars, histVars>>
    /\ UNCHANGED calc

\* The goroutine returns: "failed" when the variables are unset, the Post
\* failed or the API answered an error, "ok" when the API answered 200.  Each
\* outcome is only logged.
NotifierFinish(r) ==
    /\ notifier[r] = "running"
    /\ \E o \in NotifierOutcomes : notifier' = [notifier EXCEPT ![r] = o]
    /\ UNCHANGED <<reqVars, gateVars, consolePc, tabVars,  histVars>>
    /\ UNCHANGED calc

(***************************************************************************)
(* scrapeHandler: extraction, response, deferred cancelTab.                *)
(***************************************************************************)

\* chromedp.Text / Title / AttributeValue / Nodes of an enabled directive.
ExtractStep(r) ==
    /\ pc[r] = "run"
    /\ CurTask(r) \in {"Text", "Title", "AttrDescription", "AttrKeywords", "Nodes"}
    /\ \/ TaskOk(r)
       \/ TaskFail(r)
    /\ UNCHANGED <<query, kw, status, response, observed>>
    /\ UNCHANGED <<gateVars, consolePc, tabVars, notifier,  histVars>>
    /\ UNCHANGED calc

\* Variant: every field is filled in whatever the query asked for.
ResponseFieldsAll(q, contentEmpty, linksEmpty) == {"content", "meta", "links"}

\* The fields of the Response that the final ActionFunc leaves non-zero, which
\* are the fields Encode writes (each is omitempty): Content when the flag is
\* set and the trimmed text is not empty, Meta (a pointer) when the flag is
\* set, Links when the flag is set and an anchor was kept.
ResponseFields(q, contentEmpty, linksEmpty) ==
    (IF q.content /\ ~contentEmpty THEN {"content"} ELSE {})
    \cup (IF q.meta THEN {"meta"} ELSE {})
    \cup (IF q.links /\ ~linksEmpty THEN {"links"} ELSE {})

\* The final ActionFunc; it returns nil and Run returns nil.
FinalAction(r) ==
    /\ pc[r] = "run"
    /\ CurTask(r) = "final"
    /\ \E contentEmpty, linksEmpty \in BOOLEAN :
          response' = [response EXCEPT ![r] =
                          ResponseFields(query[r], contentEmpty, linksEmpty)]
    /\ ti' = [ti EXCEPT ![r] = @ + 1]
    /\ ran' = [ran EXCEPT ![r] = Append(@, "final")]
    /\ pc' = [pc EXCEPT ![r] = "respond"]
    /\ UNCHANGED <<query, kw, err, status, observed>>
    /\ UNCHANGED <<gateVars, consolePc, tabVars, notifier,  histVars>>
    /\ UNCHANGED calc


\* Variant: cancelTab is called on the success path only, not deferred.
RespondNoDefer(r) ==
    /\ pc[r] = "respond"
    /\ status' = [status EXCEPT ![r] = IF err[r] THEN 500 ELSE 200]
    /\ pc' = [pc EXCEPT ![r] = IF err[r] THEN "done" ELSE "closeTab"]
    /\ UNCHANGED <<query, ti, kw, err, response, observed, ran>>
    /\ UNCHANGED <<gateVars, consolePc, tabVars, notifier, histVars>>
    /\ UNCHANGED calc

\* if err != nil { writeJsonError(500); return }; json.NewEncoder(w).Encode(response)
Respond(r) ==
    /\ pc[r] = "respond"
    /\ status' = [status EXCEPT ![r] = IF err[r] THEN 500 ELSE 200]
    /\ pc' = [pc EXCEPT ![r] = "closeTab"]
    /\ UNCHANGED <<query, ti, kw, err, response, observed, ran>>
    /\ UNCHANGED <<gateVars, consolePc, tabVars, notifier,  histVars>>
    /\ UNCHANGED calc


\* Variant: tearing the tab down also clears the flag.
CloseTabClearsFlag(r) ==
    /\ pc[r] = "closeTab"
    /\ openTabs' = openTabs \ {tab[r]}
    /\ closes' = [closes EXCEPT ![r] = @ + 1]
    /\ pc' = [pc EXCEPT ![r] = "done"]
    /\ isCaptchaPending' = FALSE
    /\ UNCHANGED <<query, ti, kw, err, status, response, observed, ran>>
    /\ UNCHANGED <<captchaMutex, consolePc, tab, nextTab, opens, notifier, histVars>>
    /\ UNCHANGED calc

\* The deferred cancelTab() as scrapeHandler returns.
CloseTab(r) ==
    /\ pc[r] = "closeTab"
    /\ openTabs' = openTabs \ {tab[r]}
    /\ closes' = [closes EXCEPT ![r] = @ + 1]
    /\ pc' = [pc EXCEPT ![r] = "done"]
    /\ UNCHANGED <<query, ti, kw, err, status, response, observed, ran>>
    /\ UNCHANGED <<gateVars, consolePc, tab, nextTab, opens, notifier,  histVars>>
    /\ UNCHANGED calc

(***************************************************************************)
(* manageConsoleInput.                                                     *)
(***************************************************************************)


\* Variant: Enter leaves the flag as it is.
ResolveKeeps(pending) == pending

\* Variant: Enter flips the flag.
ResolveToggles(pending) == ~pending

\* The flag after the body of the console loop.
Resolve(pending) == IF pending THEN FALSE ELSE pending

\* reader.ReadString('\n') returns: the operator pressed Enter.
ConsoleEnter ==
    /\ consolePc = "read"
    /\ consolePc' = "lock"
    /\ UNCHANGED <<reqVars, gateVars, tabVars, notifier, histVars>>
    /\ UNCHANGED calc

\* captchaMutex.Lock() succeeds.
ConsoleLock ==
    /\ consolePc = "lock"
    /\ ~captchaMutex
    /\ captchaMutex' = TRUE
    /\ consolePc' = "locked"
    /\ UNCHANGED <<reqVars, isCaptchaPending, tabVars, notifier,  histVars>>
    /\ UNCHANGED calc

\* if isCaptchaPending { isCaptchaPending = false }; captchaMutex.Unlock()
ConsoleResolve ==
    /\ consolePc = "locked"
    /\ isCaptchaPending' = Resolve(isCaptchaPending)
    /\ captchaMutex' = FALSE
    /\ consolePc' = "read"
    /\ trigBegun' = FALSE
    /\ episodeOpen' = FALSE
    /\ released' = [r \in Reqs |-> released[r] \/ pc[r] \in ParkedStates]
    /\ UNCHANGED <<reqVars, tabVars, notifier>>
    /\ UNCHANGED calc

Handler(r) ==
    \/ AdmitLock(r)
    \/ AdmitCheck(r)
    \/ Reject(r)
    \/ Validate(r)
    \/ NewTab(r)
    \/ Navigate(r)
    \/ WaitVisible(r)
    \/ DetectScan(r)
    \/ TrigLock(r)
    \/ TrigSet(r)
    \/ Notify(r)
    \/ PollLock(r)
    \/ PollCheck(r)
    \/ PollSleep(r)
    \/ Settle(r)
    \/ ExtractStep(r)
    \/ FinalAction(r)
    \/ Respond(r)
    \/ CloseTab(r)

Next ==
    \/ \E r \in Reqs : Arrive(r)
    \/ \E r \in Reqs : Handler(r)
    \/ \E r \in Reqs : NotifierFinish(r)
    \/ ConsoleEnter
    \/ ConsoleLock
    \/ ConsoleResolve

Spec == Init /\ [][Next]_vars

\* The scheduler runs every goroutine that can take a step, and sync.Mutex
\* hands the lock to a goroutine that keeps asking for it.  Neither clients
\* nor the operator nor the notifier are obliged to act.
FairSpec ==
    /\ Spec
    /\ \A r \in Reqs : SF_vars(Handler(r))
    /\ SF_vars(ConsoleLock)
    /\ WF_vars(ConsoleResolve)

\* The requests drawn where only the lock protocol is examined: a url and
\* the content directive.
LockQueries == {q \in Queries : q.url # "" /\ q.content /\ ~q.links /\ ~q.meta}

\* The HTTP server starts scrapeHandler for a request of LockQueries.
ArriveLockQuery(r) ==
    /\ pc[r] = "idle"
    /\ \E q \in LockQueries : query' = [query EXCEPT ![r] = q]
    /\ pc' = [pc EXCEPT ![r] = "admitLock"]
    /\ UNCHANGED <<ti, kw, err, status, response, observed, ran>>
    /\ UNCHANGED <<gateVars, consolePc, tabVars, notifier, histVars>>
    /\ UNCHANGED calc

LockNext ==
    \/ \E r \in Reqs : ArriveLockQuery(r)
    \/ \E r \in Reqs : Handler(r)
    \/ \E r \in Reqs : NotifierFinish(r)
    \/ ConsoleEnter
    \/ ConsoleLock
    \/ ConsoleResolve

\* The program under the fairness of FairSpec, its requests from LockQueries.
LockFairSpec ==
    /\ Init /\ [][LockNext]_vars
    /\ \A r \in Reqs : SF_vars(Handler(r))
    /\ SF_vars(ConsoleLock)
    /\ WF_vars(ConsoleResolve)

(***************************************************************************)
(* Properties.                                                             *)
(***************************************************************************)

\* Request r's handler takes a step.
Stepped(r) == pc'[r] # pc[r] \/ ti'[r] # ti[r]

\* Request r creates its tab or starts its navigation.
BeginsBrowserWork(r) == NewTab(r) \/ Navigate(r)

\* C1 (as stated): while the flag is true no request creates a tab or starts
\* a navigation.
C1_NoBrowserWorkWhilePending ==
    [][\A r \in Reqs : BeginsBrowserWork(r) => ~isCaptchaPending]_vars

\* C1 (amended): a request that creates a tab or starts a navigation is one
\* whose admission check read the flag as false; it may do so while the flag
\* is true, when the flag was set after its check.
C1_BrowserWorkOnlyAfterFreeCheck ==
    [][\A r \in Reqs : BeginsBrowserWork(r) => observed[r] = "free"]_vars

C1_Witness ==
    \E r1, r2 \in Reqs :
        /\ isCaptchaPending
        /\ pc[r1] \in ParkedStates
        /\ r2 # r1
        /\ pc[r2] = "run"
        /\ ti[r2] = 1
        /\ observed[r2] = "free"

\* C2 (as stated): the flag is true exactly from the start of a Trigger (the
\* keyword match) until the next Resolve executes.
C2_FlagFromTriggerStart == isCaptchaPending = trigBegun

\* C2 (amended): the flag is true exactly from a triggering task's write of
\* it until the next Resolve executes, and false in every other state.
C2_FlagFromTriggerWrite == isCaptchaPending = episodeOpen

C2_Witness ==
    \E r1, r2 \in Reqs :
        /\ isCaptchaPending
        /\ pc[r1] = "sleep"
        /\ pc[r2] = "done"
        /\ kw[r2] # 0
        /\ status[r2] = 200

\* C3: a request that passed admission and validation opens exactly one tab
\* and closes it exactly once on every outcome; no tab is shared; no tab is
\* open once its request's handling has ended.
C3_TabLifecycle ==
    /\ \A r \in Reqs :
        /\ opens[r] <= 1
        /\ closes[r] <= opens[r]
        /\ (pc[r] = "done" /\ observed[r] = "free" /\ query[r].url # "")
              => (opens[r] = 1 /\ closes[r] = 1 /\ status[r] \in {200, 500})
        /\ pc[r] = "done" => tab[r] \notin openTabs
        /\ pc[r] \in {"run", "settle", "respond", "closeTab"} \cup TriggerStates
              => (opens[r] = 1 /\ closes[r] = 0 /\ tab[r] \in openTabs)
        /\ \A r2 \in Reqs \ {r} : tab[r] # 0 => tab[r] # tab[r2]
    /\ openTabs \subseteq {tab[r] : r \in Reqs}

C3_Witness ==
    \E r1, r2 \in Reqs :
        /\ pc[r1] = "done" /\ status[r1] = 500 /\ closes[r1] = 1
        /\ pc[r2] = "done" /\ status[r2] = 200 /\ closes[r2] = 1 /\ kw[r2] # 0
        /\ openTabs = {}

\* C4: a request without url is answered 400, creates no tab and leaves the
\* flag alone, whether the gate is idle or pending when it arrives.
C4_NoUrlIs400 ==
    [][\A r \in Reqs :
          (query[r].url = "" /\ Stepped(r)) =>
              /\ isCaptchaPending' = isCaptchaPending
              /\ opens'[r] = 0
              /\ (pc'[r] = "done" => status'[r] = 400)]_vars

\* C5: a request whose admission check read the flag as true is answered 503
\* at once: no tab, no task run, no wait on the gate, and no step of it
\* changes the flag.
C5_BusyIsRejected ==
    [][\A r \in Reqs :
          observed'[r] = "busy" =>
              /\ pc'[r] \in {"reject", "done"}
              /\ (pc[r] = "reject" /\ Stepped(r)) => pc'[r] = "done"
              /\ pc'[r] = "done" => status'[r] = 503
              /\ opens'[r] = 0 /\ ti'[r] = 0 /\ ran'[r] = <<>>
              /\ Stepped(r) => isCaptchaPending' = isCaptchaPending]_vars

C5_Witness ==
    \E r1, r2 \in Reqs :
        /\ isCaptchaPending
        /\ pc[r1] \in ParkedStates
        /\ pc[r2] = "done" /\ observed[r2] = "busy" /\ status[r2] = 503

\* C6: the flag changes only from false to true by the write of a task whose
\* scan matched, and from true to false by the console's Resolve.
C6_FlagTransitions ==
    [][isCaptchaPending' # isCaptchaPending =>
          \/ /\ ~isCaptchaPending
             /\ \E r \in Reqs : pc[r] = "trigSet" /\ kw[r] # 0 /\ pc'[r] = "notify"
          \/ /\ isCaptchaPending
             /\ consolePc = "locked" /\ consolePc' = "read"]_vars

C6_Witness ==
    \E r1, r2 \in Reqs :
        /\ isCaptchaPending
        /\ pc[r1] \in ParkedStates
        /\ pc[r2] = "done" /\ status[r2] = 500 /\ closes[r2] = 1

\* C7: once Resolve has executed while a task was parked, that task
\* eventually leaves the wait.
C7_ParkedEventuallyResumes ==
    \A r \in Reqs : released[r] ~> (pc[r] \notin ParkedStates)

\* C8: a task inside Trigger runs no task of its pipeline, and leaves only
\* from the check of the polling loop, having read the flag as false.
C8_LeavesOnlyWhenCleared ==
    [][\A r \in Reqs :
          pc[r] \in TriggerStates =>
              /\ ti'[r] = ti[r] /\ ran'[r] = ran[r] /\ response'[r] = response[r]
              /\ err'[r] = err[r] /\ status'[r] = status[r]
              /\ pc'[r] \notin TriggerStates =>
                    (pc[r] = "pollCheck" /\ ~isCaptchaPending /\ pc'[r] = "settle")]_vars

C8_Witness ==
    \E r \in Reqs : pc[r] = "settle" /\ notifier[r] = "failed" /\ ~isCaptchaPending

\* C9: Resolve leaves the flag false, a further Resolve would change nothing,
\* and a Resolve that finds the flag false changes nothing of the gate, the
\* requests, the tabs or the notifiers.
C9_ResolveIdempotent ==
    [][ConsoleResolve =>
          /\ ~isCaptchaPending'
          /\ Resolve(isCaptchaPending') = isCaptchaPending'
          /\ ~isCaptchaPending =>
                UNCHANGED <<isCaptchaPending, reqVars, tabVars, notifier>>]_vars

C9_Witness ==
    \E r \in Reqs :
        /\ released[r]
        /\ pc[r] \in ParkedStates
        /\ ~isCaptchaPending
        /\ consolePc = "locked"

\* C10: an extraction task of a request runs only after that request's
\* navigation, wait and CAPTCHA check have completed, in that order.
C10_ExtractionAfterCheck ==
    [][\A r \in Reqs :
          (ExtractStep(r) \/ FinalAction(r)) =>
              /\ Len(ran[r]) >= 3
              /\ SubSeq(ran[r], 1, 3) =
                    <<"Navigate", "WaitVisible", "detectAndPauseOnCaptcha">>]_vars

C10_Witness ==
    \E r \in Reqs :
        /\ kw[r] # 0
        /\ pc[r] = "respond"
        /\ ~err[r]
        /\ Len(ran[r]) > 4

\* Request r's navigation or wait for the body has failed.
NavOrWaitFailed(r) == err[r] /\ Len(ran[r]) < 2

\* C11: after a failed navigation or wait the request runs no scan and no
\* extraction, is answered 500, closes its tab and leaves the flag alone; and
\* an admission check that reads the flag as false still admits.
C11_NavFailureAborts ==
    [][\A r \in Reqs :
          /\ NavOrWaitFailed(r)' =>
                /\ pc'[r] \in {"respond", "closeTab", "done"}
                /\ kw'[r] = 0 /\ response'[r] = {} /\ notifier'[r] = "none"
                /\ \A i \in 1..Len(ran'[r]) : ran'[r][i] \in {"Navigate"}
                /\ pc'[r] \in {"closeTab", "done"} => status'[r] = 500
                /\ pc'[r] = "done" => (closes'[r] = 1 /\ tab'[r] \notin openTabs')
                /\ Stepped(r) => isCaptchaPending' = isCaptchaPending
          /\ (AdmitCheck(r) /\ ~isCaptchaPending) => pc'[r] = "validate"]_vars

C11_Witness ==
    \E r1, r2 \in Reqs :
        /\ pc[r1] = "done" /\ NavOrWaitFailed(r1) /\ status[r1] = 500
        /\ ran[r1] = <<"Navigate">>
        /\ r2 # r1 /\ tab[r2] > tab[r1]
        /\ pc[r2] = "done" /\ status[r2] = 200

(***************************************************************************)
(* The pure functions, each applied once to an input drawn from a bounded  *)
(* set.                                                                    *)
(***************************************************************************)

\* Longest page text, longest keyword list and longest anchor list drawn.
MaxTextLen == 3
MaxKeywords == 2

SeqsUpTo(S, n) == UNION {[1..k -> S] : k \in 0..n}

ScanAlphabet == {"a", "A", "b"}

KeywordPool == {<<"a">>, <<"b">>, <<"a", "b">>, <<"b", "a">>}

ScanInputs ==
    { [op |-> "scan", keywords |-> ks, text |-> t, nodes |-> <<>>, done |-> FALSE,
       out |-> 0] :
         ks \in SeqsUpTo(KeywordPool, MaxKeywords), t \in SeqsUpTo(ScanAlphabet, MaxTextLen) }

(***************************************************************************)
(* Link extraction: the loop over the anchor nodes in scrapeHandler.       *)
(***************************************************************************)

HasPrefix(s, prefix) ==
    Len(s) >= Len(prefix) /\ SubSeq(s, 1, Len(prefix)) = prefix

Whitespace == {" ", "\t", "\n"}

RECURSIVE TrimLeft(_)
TrimLeft(s) ==
    IF s # <<>> /\ Head(s) \in Whitespace THEN TrimLeft(Tail(s)) ELSE s

RECURSIVE TrimRight(_)
TrimRight(s) ==
    IF s # <<>> /\ s[Len(s)] \in Whitespace THEN TrimRight(SubSeq(s, 1, Len(s) - 1)) ELSE s

\* strings.TrimSpace
TrimSpace(s) == TrimRight(TrimLeft(s))

JavascriptPrefix == <<"j","a","v","a","s","c","r","i","p","t",":">>

\* var text string; _ = chromedp.TextContent(...): the error is dropped and
\* text keeps its zero value when the read fails.
NodeText(node) == IF node.textOk THEN node.text ELSE <<>>

\* The loop over linkNodes of the handler that queues its tasks flat.
RECURSIVE LinksFrom(_, _, _)
LinksFrom(linkNodes, i, links) ==
    IF i > Len(linkNodes) THEN links
    ELSE LET href == linkNodes[i].href
         IN  IF href = <<>> \/ HasPrefix(href, <<"#">>) \/ HasPrefix(href, JavascriptPrefix)
             THEN LinksFrom(linkNodes, i + 1, links)
             ELSE LinksFrom(linkNodes, i + 1,
                     Append(links, [href |-> href,
                                    text |-> TrimSpace(NodeText(linkNodes[i]))]))

\* The loop over nodes of the handler that extracts inside one ActionFunc.
RECURSIVE LinksFromMain(_, _, _)
LinksFromMain(nodes, i, links) ==
    IF i > Len(nodes) THEN links
    ELSE LET href == nodes[i].href
         IN  IF href = <<>> \/ HasPrefix(href, <<"#">>)
             THEN LinksFromMain(nodes, i + 1, links)
             ELSE LinksFromMain(nodes, i + 1,
                     Append(links, [href |-> href,
                                    text |-> TrimSpace(NodeText(nodes[i]))]))

\* Longest list of anchors drawn.
MaxAnchors == 2

Hrefs ==
    { <<>>, <<"#","t">>, JavascriptPrefix \o <<"x">>, <<"j","a","v","a">>, <<"/","a">> }

LinkTexts == { <<" ","x","\n">>, <<"x"," ","y">> }

AnchorNodes == [href : Hrefs, text : LinkTexts, textOk : BOOLEAN]

LinkInputs ==
    { [op |-> o, keywords |-> <<>>, text |-> <<>>, nodes |-> ns, done |-> FALSE,
       out |-> <<>>] :
         o \in {"links", "linksMain"}, ns \in SeqsUpTo(AnchorNodes, MaxAnchors) }

PureInputs == ScanInputs \cup LinkInputs

\* The state of Init, with one call under check.
PureInit ==
    /\ calc \in PureInputs
    /\ isCaptchaPending = FALSE
    /\ captchaMutex = FALSE
    /\ consolePc = "read"
    /\ pc = [r \in Reqs |-> "idle"]
    /\ query = [r \in Reqs |-> NoQuery]
    /\ ti = [r \in Reqs |-> 0]
    /\ kw = [r \in Reqs |-> 0]
    /\ err = [r \in Reqs |-> FALSE]
    /\ status = [r \in Reqs |-> 0]
    /\ response = [r \in Reqs |-> {}]
    /\ tab = [r \in Reqs |-> 0]
    /\ openTabs = {}
    /\ nextTab = 1
    /\ closes = [r \in Reqs |-> 0]
    /\ opens = [r \in Reqs |-> 0]
    /\ notifier = [r \in Reqs |-> "none"]
    /\ observed = [r \in Reqs |-> "none"]
    /\ ran = [r \in Reqs |-> <<>>]
    /\ trigBegun = FALSE
    /\ episodeOpen = FALSE
    /\ released = [r \in Reqs |-> FALSE]

progVars == <<reqVars, gateVars, consolePc, tabVars, notifier, histVars>>

\* lowerBodyText := strings.ToLower(bodyText) and the keyword loop.
ScanApply ==
    /\ calc.op = "scan"
    /\ ~calc.done
    /\ calc' = [calc EXCEPT !.done = TRUE, !.out = ScanWith(calc.text, calc.keywords)]
    /\ UNCHANGED progVars

\* The links loop of the final ActionFunc (flat task list).
LinksApply ==
    /\ calc.op = "links"
    /\ ~calc.done
    /\ calc' = [calc EXCEPT !.done = TRUE, !.out = LinksFrom(calc.nodes, 1, <<>>)]
    /\ UNCHANGED progVars

\* The links loop of the single extraction ActionFunc.
LinksApplyMain ==
    /\ calc.op = "linksMain"
    /\ ~calc.done
    /\ calc' = [calc EXCEPT !.done = TRUE, !.out = LinksFromMain(calc.nodes, 1, <<>>)]
    /\ UNCHANGED progVars

PureNext ==
    \/ ScanApply
    \/ LinksApply
    \/ LinksApplyMain

PureSpec == PureInit /\ [][PureNext]_vars

\* substr occurs in s at some position.
Occurs(s, substr) ==
    \E i \in 1..(Len(s) + 1) :
        \A j \in 1..Len(substr) : i + j - 1 <= Len(s) /\ s[i + j - 1] = substr[j]

\* The keywords of the call that occur in its lowercased text.
MatchingKeywords ==
    {k \in 1..Len(calc.keywords) : Occurs(ToLower(calc.text), calc.keywords[k])}

\* C12: Scan matches exactly when the lowercased text contains a keyword, and
\* reports the first keyword in list order that it contains.
C12_ScanFirstMatch ==
    (calc.op = "scan" /\ calc.done) =>
        /\ calc.out # 0 <=> MatchingKeywords # {}
        /\ calc.out # 0 =>
              /\ calc.out \in MatchingKeywords
              /\ \A k \in MatchingKeywords : calc.out <= k

C12_Witness ==
    /\ calc.op = "scan"
    /\ calc.done
    /\ calc.out = 1
    /\ MatchingKeywords = {1, 2}
    /\ calc.keywords[1] # calc.keywords[2]
    /\ \E i \in 1..Len(calc.text) : calc.text[i] = "A"

\* An anchor the claim keeps: href non-empty, not a fragment, not a script URL.
KeptAnchor(node) ==
    /\ node.href # <<>>
    /\ node.href[1] # "#"
    /\ ~(/\ Len(node.href) >= Len(JavascriptPrefix)
         /\ \A j \in 1..Len(JavascriptPrefix) : node.href[j] = JavascriptPrefix[j])

\* t without its leading and trailing whitespace.
Trimmed(t) ==
    LET solid == {i \in 1..Len(t) : t[i] \notin Whitespace}
    IN  IF solid = {} THEN <<>>
        ELSE SubSeq(t, CHOOSE i \in solid : \A j \in solid : i <= j,
                       CHOOSE i \in solid : \A j \in solid : j <= i)

\* The links the claim expects for the anchors of the call.
ExpectedLinks ==
    LET kept == SelectSeq(calc.nodes, KeptAnchor)
    IN  [i \in 1..Len(kept) |->
            [href |-> kept[i].href,
             text |-> IF kept[i].textOk THEN Trimmed(kept[i].text) ELSE <<>>]]

\* C13: link extraction returns, in document order, exactly the anchors whose
\* href is non-empty and starts neither with # nor with javascript:, each with
\* its text trimmed, an unreadable text dropping no anchor.
C13_LinksFiltered ==
    (calc.op \in {"links", "linksMain"} /\ calc.done) => calc.out = ExpectedLinks

\* The directives whose flag is present in request r's query.
Directives(r) ==
    {f \in {"content", "links", "meta"} :
        \/ f = "content" /\ query[r].content
        \/ f = "links" /\ query[r].links
        \/ f = "meta" /\ query[r].meta}

\* C14: a request answered 200 carries fields only of directives present in
\* its query; with no directive the body is {} and the request still ran the
\* navigation and the CAPTCHA check.
C14_FieldsOnlyForFlags ==
    \A r \in Reqs :
        status[r] = 200 =>
            /\ response[r] \subseteq Directives(r)
            /\ Directives(r) = {} =>
                  /\ response[r] = {}
                  /\ ran[r] = <<"Navigate", "WaitVisible", "detectAndPauseOnCaptcha", "final">>

C14_Witness ==
    \E r \in Reqs :
        /\ pc[r] = "done" /\ status[r] = 200
        /\ Directives(r) = {} /\ response[r] = {}
        /\ kw[r] # 0
        /\ \E r2 \in Reqs : status[r2] = 200 /\ response[r2] = {"meta"} /\ query[r2].links

\* C15: the notification is detached.  The notifier's return, whatever its
\* outcome, changes nothing of the request, the gate, the tabs or the console;
\* the triggering task parks after the dispatch without waiting for it, leaves
\* the polling loop exactly when its poll reads the flag cleared, fails only by
\* a browser task, and is answered by the error of its tasks alone.
C15_NotifierDetached ==
    [][\A r \in Reqs :
          /\ notifier'[r] # notifier[r] =>
                \/ /\ pc[r] = "notify" /\ pc'[r] = "pollLock"
                   /\ notifier'[r] = "running"
                   /\ UNCHANGED gateVars
                \/ /\ notifier[r] = "running" /\ notifier'[r] \in NotifierOutcomes
                   /\ UNCHANGED <<reqVars, gateVars, tabVars, consolePc>>
          /\ (pc[r] = "notify" /\ Stepped(r)) => pc'[r] = "pollLock"
          /\ (pc[r] = "pollCheck" /\ Stepped(r)) =>
                pc'[r] = (IF isCaptchaPending THEN "sleep" ELSE "settle")
          /\ err'[r] # err[r] => (Stepped(r) /\ pc[r] \in {"run", "settle"})
          /\ (pc[r] = "respond" /\ Stepped(r)) =>
                status'[r] = (IF err[r] THEN 500 ELSE 200)]_vars

\* Two triggering requests both answered 200 with their fields, one whose
\* notifier never returned and one whose notifier failed.
C15_Witness ==
    \E r1, r2 \in Reqs :
        /\ pc[r1] = "done" /\ kw[r1] # 0 /\ status[r1] = 200 /\ notifier[r1] = "running"
        /\ pc[r2] = "done" /\ kw[r2] # 0 /\ status[r2] = 200 /\ notifier[r2] = "failed"
        /\ response[r1] = response[r2] /\ response[r1] # {}
        /\ ~isCaptchaPending

\* The requests whose notification was dispatched after their write of the
\* flag with no Enter since: their notifications fall in the present interval.
NotifiedInEpisode ==
    {r \in Reqs : pc[r] \in {"pollLock", "pollCheck", "sleep"} /\ ~released[r]}

\* C16: every maximal interval in which the flag is pending has one
\* notification, also when several requests detect a challenge during it.
C16_OneNotificationPerEpisode ==
    isCaptchaPending => Cardinality(NotifiedInEpisode) <= 1

\* C17: whenever the flag is pending, some request is inside the pause block,
\* between its write of the flag and its exit from the polling loop.
C17_PendingHasWaiter ==
    isCaptchaPending => \E r \in Reqs : pc[r] \in ParkedStates

\* The flag is pending again for a parked request after an earlier episode of
\* the other request was resolved and that request answered.
C17_Witness ==
    \E r1, r2 \in Reqs :
        /\ isCaptchaPending
        /\ pc[r1] = "sleep"
        /\ pc[r2] = "done" /\ kw[r2] # 0 /\ status[r2] = 200

\* Request r is between a captchaMutex.Lock() and its Unlock().
HoldsLock(r) == pc[r] \in {"admitCheck", "trigSet", "pollCheck"}

\* The goroutines between a Lock() and its Unlock(); 0 stands for the console.
LockHolders ==
    {r \in Reqs : HoldsLock(r)} \cup (IF consolePc = "locked" THEN {0} ELSE {})

\* The mutex is locked exactly while one goroutine is inside a check or an
\* update of the flag, and that goroutine can take its releasing step.
LockHeldOnlyInCheck ==
    /\ Cardinality(LockHolders) <= 1
    /\ captchaMutex <=> LockHolders # {}
    /\ \A r \in Reqs : HoldsLock(r) => ENABLED Handler(r)
    /\ consolePc = "locked" => ENABLED ConsoleResolve
    /\ ENABLED LockNext

\* C18: the lock is held only inside a check or update of the flag, never at
\* a sleep, a browser task or the notifier dispatch, and the holder's next
\* step releases it; no state is a deadlock; an admission check and an Enter
\* that ask for the lock obtain it, whatever tasks are parked.
C18_LockShortAndObtained ==
    /\ []LockHeldOnlyInCheck
    /\ [][\A r \in Reqs : (HoldsLock(r) /\ Stepped(r)) => ~captchaMutex']_vars
    /\ [][(consolePc = "locked" /\ consolePc' # consolePc) => ~captchaMutex']_vars
    /\ \A r \in Reqs : (pc[r] = "admitLock") ~> (pc[r] = "admitCheck")
    /\ (consolePc = "lock") ~> (consolePc = "locked")

\* An admission check and an Enter both obtained the lock in turn while the
\* other request was parked in its polling loop.
C18_Witness ==
    \E r1, r2 \in Reqs :
        /\ pc[r1] = "sleep"
        /\ pc[r2] = "done" /\ status[r2] = 503
        /\ consolePc = "locked" /\ captchaMutex
        /\ isCaptchaPending

\* Request r is past its admission check and has not returned.
Admitted(r) ==
    pc[r] \in {"validate", "newTab", "run", "settle", "respond", "closeTab"} \cup TriggerStates

\* An admitted request outside the pause block has a step it can take
\* whatever the gate, and only a request that matched a keyword is inside it.
NoMatchNeverWaits ==
    \A r \in Reqs :
        /\ pc[r] \in TriggerStates => kw[r] # 0
        /\ (Admitted(r) /\ pc[r] \notin TriggerStates) => ENABLED Handler(r)

\* C19: an admitted request whose page matches no keyword never enters the
\* wait, always has a step to take, leaves the flag as it is at every step,
\* and reaches its response, also while another request holds the gate pending.
C19_NoMatchRunsThrough ==
    /\ []NoMatchNeverWaits
    /\ [][\A r \in Reqs :
             (Stepped(r) /\ kw'[r] = 0) => isCaptchaPending' = isCaptchaPending]_vars
    /\ \A r \in Reqs : (pc[r] = "validate") ~> (pc[r] = "done" \/ kw[r] # 0)

\* A request past its scan with no match goes on while the other is parked
\* and the flag is pending.
C19_Witness ==
    \E r1, r2 \in Reqs :
        /\ pc[r1] = "run" /\ CurTask(r1) = "final" /\ kw[r1] = 0
        /\ isCaptchaPending /\ pc[r2] = "sleep"

====
